---- MODULE Spec2Model ----
(***************************************************************************)
(* Model of the documentation generator in docs/python:                    *)
(*   syntax.py    - the tag table _JS.TAGS and the node kinds _JS.IDS       *)
(*   templates.py - the page template HTML and html(name, menu, content,    *)
(*                  style)                                                  *)
(*   parser.py    - the driver loop over the module list                    *)
(* docbuilder.py (class DocBuilder: parse, html) is imported by parser.py   *)
(* but is not among the source files; the comment block parser below is     *)
(* written from section 4.2 of the specification.                           *)
(*                                                                          *)
(* Text is modelled character by character: a string is a sequence of       *)
(* one-character strings, <<"@","v","a","r">> for "@var".                   *)
(* The code is Python 2 (bytes.format exists only there); str and unicode   *)
(* are kept apart in the renderer.                                          *)
(***************************************************************************)
EXTENDS Integers, Sequences, FiniteSets, TLC

VARIABLES
    \* comment block parser (one file)
    text,       \* the lines read so far, as line identifiers
    ppc,        \* "scan" while lines are read, "done" after end of input
    state,      \* "OUTSIDE_BLOCK" or "IN_BLOCK"
    cur,        \* the node in progress
    out,        \* the nodes returned
    \* template renderer
    rpc,        \* "idle", "encoded", "done"
    rargs,      \* the arguments of the call to html
    rtmpl,      \* the template after HTML.encode('utf-8')
    rresult,    \* what the call returned or raised
    \* driver
    dpc,        \* position in the loop body of parser.py
    di,         \* index of the current module in the module list
    builder,    \* the DocBuilder of the current iteration
    nbuilders,  \* how many DocBuilder objects were constructed
    printed,    \* the lines printed
    events,     \* the calls made on DocBuilder objects, in order
    written     \* the output paths written, in order

pvars == <<text, ppc, state, cur, out>>
rvars == <<rpc, rargs, rtmpl, rresult>>
dvars == <<dpc, di, builder, nbuilders, printed, events, written>>
vars == <<text, ppc, state, cur, out, rpc, rargs, rtmpl, rresult,
          dpc, di, builder, nbuilders, printed, events, written>>

(***************************************************************************)
(* Bounds.                                                                 *)
(***************************************************************************)
\* The longest input text of the parser, in lines.
MaxLines == 5
\* The longest argument of html, in characters.
MaxArgLen == 1
\* The most nodes DocBuilder.parse reports for one file.
MaxNodes == 2

(***************************************************************************)
(* syntax.py: the tag table.                                               *)
(***************************************************************************)
JS_TAGS ==
    [block |-> [START |-> <<"/","*","*">>,
                END |-> <<"*","/">>],
     flag |-> [ignore |-> <<"@","i","g","n","o","r","e">>,
               private |-> <<"@","p","r","i","v","a","t","e">>,
               constructor |-> <<"@","c","o","n","s","t","r","u","c","t","o","r">>,
               deprecated |-> <<"@","d","e","p","r","e","c","a","t","e","d">>],
     label |-> [module |-> <<"@","m","o","d","u","l","e">>,
                namespace |-> <<"@","n","a","m","e","s","p","a","c","e">>,
                class |-> <<"@","c","l","a","s","s">>,
                method |-> <<"@","m","e","t","h","o","d">>,
                memberOf |-> <<"@","m","e","m","b","e","r","O","f">>,
                methodOf |-> <<"@","m","e","t","h","o","d","O","f">>,
                requires |-> <<"@","r","e","q","u","i","r","e","s">>,
                override |-> <<"@","o","v","e","r","r","i","d","e">>,
                type |-> <<"@","t","y","p","e">>],
     description |-> [description |-> <<"@","d","e","s","c","r","i","p","t","i","o","n">>,
                      copyright |-> <<"@","c","o","p","y","r","i","g","h","t">>,
                      author |-> <<"@","a","u","t","h","o","r">>],
     value |-> [var |-> <<"@","v","a","r">>],
     unnamed_value_desc |-> [returns |-> <<"@","r","e","t","u","r","n","s">>],
     named_value_desc |-> [param |-> <<"@","p","a","r","a","m">>,
                           property |-> <<"@","p","r","o","p","e","r","t","y">>]]

JS_IDS == <<"module", "namespace", "class", "method", "var", "property">>

\* START and END exchanged.
TAGS_swapped ==
    [JS_TAGS EXCEPT !.block = [START |-> <<"*","/">>, END |-> <<"/","*","*">>]]

\* END cut short to "*".
TAGS_endStar == [JS_TAGS EXCEPT !.block.END = <<"*">>]

\* 'deprecated' entered under 'description' instead of 'flag'.
TAGS_deprecatedDesc ==
    [JS_TAGS EXCEPT
       !.flag = [ignore |-> JS_TAGS.flag.ignore,
                 private |-> JS_TAGS.flag.private,
                 constructor |-> JS_TAGS.flag.constructor],
       !.description = [description |-> JS_TAGS.description.description,
                        copyright |-> JS_TAGS.description.copyright,
                        author |-> JS_TAGS.description.author,
                        deprecated |-> JS_TAGS.flag.deprecated]]

\* The category 'named_value_desc' without its 'property' entry.
TAGS_noProperty ==
    [JS_TAGS EXCEPT !.named_value_desc = [param |-> JS_TAGS.named_value_desc.param]]

\* 'requires' given the marker of 'returns'.
TAGS_dupMarker == [JS_TAGS EXCEPT !.label.requires = <<"@","r","e","t","u","r","n","s">>]

\* The tag table as the module-level instance js exposes it.
TAGS == JS_TAGS

\* 'property' left out of the node kinds.
IDS_noProperty == <<"module", "namespace", "class", "method", "var">>

\* 'method' left out of the node kinds.
IDS_noMethod == <<"module", "namespace", "class", "var", "property">>

IDS == JS_IDS

\* The categories whose entries are tag markers (every category but 'block').
TagCategories == DOMAIN TAGS \ {"block"}

\* All (category, identifier) entries of the table.
AllIdentifiers == UNION {DOMAIN TAGS[c] : c \in DOMAIN TAGS}

Entries == {e \in (DOMAIN TAGS) \X AllIdentifiers : e[2] \in DOMAIN TAGS[e[1]]}

MarkerOf(e) == TAGS[e[1]][e[2]]

(***************************************************************************)
(* Character-level helpers.                                                *)
(***************************************************************************)
Whitespace == {" "}

IsPrefix(p, s) == Len(p) <= Len(s) /\ SubSeq(s, 1, Len(p)) = p

IsProperPrefix(p, s) == IsPrefix(p, s) /\ Len(p) < Len(s)

\* s without its leading characters of `drop`.
RECURSIVE LStrip(_, _)
LStrip(s, drop) ==
    IF s # <<>> /\ Head(s) \in drop THEN LStrip(Tail(s), drop) ELSE s

\* The first whitespace-delimited word of s (s has no leading whitespace).
RECURSIVE FirstWord(_)
FirstWord(s) ==
    IF s = <<>> \/ Head(s) \in Whitespace THEN <<>>
    ELSE <<Head(s)>> \o FirstWord(Tail(s))

\* What follows the first word of s, without the whitespace between.
Remainder(s) ==
    LStrip(SubSeq(s, Len(FirstWord(s)) + 1, Len(s)), Whitespace)

(***************************************************************************)
(* Input of the parser: the lines a source text is made of.                *)
(***************************************************************************)
LineIds == {"start", "end", "method_foo", "property_p", "methodOf_Bar",
            "deprecated", "private", "text"}

LineText(id) ==
    CASE id = "start" -> <<"/","*","*">>
      [] id = "end" -> <<" ","*","/">>
      [] id = "method_foo" -> <<" ","*"," ","@","m","e","t","h","o","d"," ","f","o","o">>
      [] id = "property_p" -> <<" ","*"," ","@","p","r","o","p","e","r","t","y"," ","p">>
      [] id = "methodOf_Bar" ->
             <<" ","*"," ","@","m","e","t","h","o","d","O","f"," ","B","a","r">>
      [] id = "deprecated" -> <<" ","*"," ","@","d","e","p","r","e","c","a","t","e","d">>
      [] id = "private" -> <<" ","*"," ","@","p","r","i","v","a","t","e">>
      [] id = "text" -> <<" ","*"," ","s","o","m","e"," ","t","e","x","t">>

(***************************************************************************)
(* The comment block parser (DocBuilder.parse), from section 4.2 of the    *)
(* specification.  A node is created when a block opens and is populated   *)
(* line by line; it counts as started once a node-kind marker gave it a    *)
(* kind.  A tag line is recognised by its first word being a marker.       *)
(***************************************************************************)
\* A node no line has populated yet.
EmptyNode ==
    [kind |-> "none", name |-> <<>>, parent |-> <<>>, flags |-> {}, fields |-> <<>>]

\* A line of a block without its comment decoration (step 2).
Content(line) == LStrip(line, Whitespace \cup {"*"})

\* The node kinds whose marker is the word w, as indices into IDS.
KindMatches(w) ==
    {i \in 1..Len(IDS) :
        \E c \in TagCategories : IDS[i] \in DOMAIN TAGS[c] /\ TAGS[c][IDS[i]] = w}

FlagMatches(w) == {f \in DOMAIN TAGS.flag : TAGS.flag[f] = w}

ParentMatches(w) ==
    {p \in {"memberOf", "methodOf"} \cap DOMAIN TAGS.label : TAGS.label[p] = w}

FieldMatches(w) ==
    {e \in Entries : e[1] \in TagCategories \ {"flag"} /\ MarkerOf(e) = w}

\* What a line is (steps 1 and 3): whether it starts with a block delimiter,
\* and which marker its first word is, tested in the fixed order node kinds,
\* flags, parent references, the other markers, unknown markers, plain text.
Classify(line) ==
    LET t == LStrip(line, Whitespace)
        c == Content(line)
        w == FirstWord(c)
        tag == IF KindMatches(w) # {} THEN
                   <<"kind", IDS[CHOOSE i \in KindMatches(w) :
                                    \A j \in KindMatches(w) : i <= j]>>
               ELSE IF FlagMatches(w) # {} THEN
                   <<"flag", CHOOSE f \in FlagMatches(w) : TRUE>>
               ELSE IF ParentMatches(w) # {} THEN
                   <<"parent", CHOOSE q \in ParentMatches(w) : TRUE>>
               ELSE IF FieldMatches(w) # {} THEN
                   <<"field", (CHOOSE e \in FieldMatches(w) : TRUE)[2]>>
               ELSE IF w # <<>> /\ Head(w) = "@" THEN
                   <<"unknown", "">>
               ELSE
                   <<"text", "">>
    IN  [start |-> IsPrefix(TAGS.block.START, t),
         end |-> IsPrefix(TAGS.block.END, t),
         op |-> tag[1],
         id |-> tag[2],
         arg |-> Remainder(c),
         content |-> c]

\* The lines of the input alphabet, classified.
LineClass == [id \in LineIds |-> Classify(LineText(id))]

\* Plain text continues the current field; the first field is the description.
Continue(fields, c) ==
    IF fields = <<>> THEN <<[id |-> "description", text |-> <<c>>]>>
    ELSE [fields EXCEPT ![Len(fields)].text = Append(@, c)]

\* One line of a block applied to the node in progress (steps 4 to 7).
ApplyLine(node, cl) ==
    CASE cl.op = "kind" -> [node EXCEPT !.kind = cl.id, !.name = cl.arg]
      [] cl.op = "flag" -> [node EXCEPT !.flags = @ \cup {cl.id}]
      [] cl.op = "parent" -> [node EXCEPT !.parent = cl.arg]
      [] cl.op = "field" ->
             [node EXCEPT !.fields = Append(@, [id |-> cl.id, text |-> <<cl.arg>>])]
      [] cl.op = "unknown" -> node
      [] OTHER -> [node EXCEPT !.fields = Continue(@, cl.content)]

\* Leaving a block: the node is appended if it was started (step 8).
CloseBlock(ps) ==
    [state |-> "OUTSIDE_BLOCK",
     cur |-> EmptyNode,
     out |-> IF ps.cur.kind # "none" THEN Append(ps.out, ps.cur) ELSE ps.out]

\* One line of the text (the state machine of section 4).
Step(ps, cl) ==
    IF ps.state = "OUTSIDE_BLOCK" THEN
        IF cl.start
        THEN [ps EXCEPT !.state = "IN_BLOCK", !.cur = EmptyNode]
        ELSE ps
    ELSE
        IF cl.end
        THEN CloseBlock(ps)
        ELSE [ps EXCEPT !.cur = ApplyLine(@, cl)]

\* End of input: a block still open is closed.
Finish(ps) == IF ps.state = "IN_BLOCK" THEN CloseBlock(ps) ELSE ps

ParseInit == [state |-> "OUTSIDE_BLOCK", cur |-> EmptyNode, out |-> <<>>]

RECURSIVE Run(_, _)
Run(ps, ids) ==
    IF ids = <<>> THEN ps ELSE Run(Step(ps, LineClass[Head(ids)]), Tail(ids))

\* parse(sourceText): the nodes of a whole text.
Parse(ids) == Finish(Run(ParseInit, ids)).out

PInit ==
    /\ text = <<>>
    /\ ppc = "scan"
    /\ state = ParseInit.state
    /\ cur = ParseInit.cur
    /\ out = ParseInit.out

PIdle ==
    /\ text = <<>>
    /\ ppc = "idle"
    /\ state = ParseInit.state
    /\ cur = ParseInit.cur
    /\ out = ParseInit.out

ReadLine(l) ==
    /\ ppc = "scan"
    /\ Len(text) < MaxLines
    /\ LET r == Step([state |-> state, cur |-> cur, out |-> out], LineClass[l])
       IN  /\ state' = r.state
           /\ cur' = r.cur
           /\ out' = r.out
    /\ text' = Append(text, l)
    /\ UNCHANGED ppc

EndOfInput ==
    /\ ppc = "scan"
    /\ LET r == Finish([state |-> state, cur |-> cur, out |-> out])
       IN  /\ state' = r.state
           /\ cur' = r.cur
           /\ out' = r.out
    /\ ppc' = "done"
    /\ UNCHANGED text

(***************************************************************************)
(* templates.py: the renderer, under Python 2.                             *)
(* A Python string is [ty, s]: ty is "str" (bytes) or "unicode" (code      *)
(* points), s its characters.  A run of ASCII characters of the template   *)
(* that holds no brace is written as one element.  A raised exception is   *)
(* [ty |-> "error", s |-> <<its name>>].                                   *)
(***************************************************************************)
NonAscii == {"U+2630", "U+00E9"}

PyStr(s) == [ty |-> "str", s |-> s]

PyUnicode(s) == [ty |-> "unicode", s |-> s]

PyError(e) == [ty |-> "error", s |-> <<e>>]

CSS == PyStr(<<>>)

HTML ==
    PyUnicode(
      <<"<!DOCTYPE html><html lang='en'><head><meta charset='UTF-8'><meta name='viewport' content='width=device-width, initial-scale=1.0'><link href='https://fonts.googleapis.com/css?family=Montserrat:200,300,700' rel='stylesheet'><link rel='stylesheet' type='text/css' href='https://cdn.rawgit.com/synesenom/whiteprint/master/wp.min.css'><style>",
        "{", "}",
        "</style><title>",
        "{", "}",
        "</title></head><body><input type='checkbox' id='menu'><label for='menu' id='open'>",
        "U+2630",
        "</label><aside><div class='logo'>",
        "{", "}",
        "</div><nav><div>",
        "{", "}",
        "</div></nav></aside><main>",
        "{", "}",
        "<label for='menu' id='exit'></label></main></body></html>">>)

\* The UTF-8 bytes of one code point.
Utf8(c) ==
    CASE c = "U+2630" -> <<"xE2", "x98", "xB0">>
      [] c = "U+00E9" -> <<"xC3", "xA9">>
      [] OTHER -> <<c>>

RECURSIVE Utf8All(_)
Utf8All(s) == IF s = <<>> THEN <<>> ELSE Utf8(Head(s)) \o Utf8All(Tail(s))

\* u.encode('utf-8')
Encode(u) == IF u.ty = "unicode" THEN PyStr(Utf8All(u.s)) ELSE u

HighBytes == {"xE2", "x98", "xB0", "xC3", "xA9"}

\* a + b: str + unicode decodes the str with the ascii codec.
PyAdd(a, b) ==
    IF a.ty = b.ty THEN [ty |-> a.ty, s |-> a.s \o b.s]
    ELSE LET bytes == IF a.ty = "str" THEN a.s ELSE b.s
         IN  IF \E k \in 1..Len(bytes) : bytes[k] \in HighBytes
             THEN PyError("UnicodeDecodeError")
             ELSE PyUnicode(a.s \o b.s)

\* What str.format makes of one argument: a unicode result is converted with
\* the ascii codec.
ToStr(v) ==
    IF v.ty = "unicode" THEN
        IF \E k \in 1..Len(v.s) : v.s[k] \in NonAscii
        THEN PyError("UnicodeEncodeError")
        ELSE PyStr(v.s)
    ELSE v

\* str.format with automatically numbered fields: t is what is left of the
\* template, n the next field, acc the output so far.
RECURSIVE FormatFrom(_, _, _, _)
FormatFrom(t, args, n, acc) ==
    IF t = <<>> THEN PyStr(acc)
    ELSE IF Head(t) = "{" THEN
        IF Len(t) >= 2 /\ t[2] = "}" THEN
            IF n > Len(args) THEN PyError("IndexError")
            ELSE LET v == ToStr(args[n])
                 IN  IF v.ty = "error" THEN v
                     ELSE FormatFrom(SubSeq(t, 3, Len(t)), args, n + 1, acc \o v.s)
        ELSE IF Len(t) >= 2 /\ t[2] = "{" THEN
            FormatFrom(SubSeq(t, 3, Len(t)), args, n, Append(acc, "{"))
        ELSE PyError("ValueError")
    ELSE IF Head(t) = "}" THEN
        IF Len(t) >= 2 /\ t[2] = "}"
        THEN FormatFrom(SubSeq(t, 3, Len(t)), args, n, Append(acc, "}"))
        ELSE PyError("ValueError")
    ELSE FormatFrom(Tail(t), args, n, Append(acc, Head(t)))

Format(tmpl, args) == FormatFrom(tmpl.s, args, 1, <<>>)

\* menu and content exchanged.
FormatArgs_swapped(name, menu, content, style) ==
    <<PyAdd(CSS, style), name, name, content, menu>>

\* The arguments html passes to format.
FormatArgs(name, menu, content, style) ==
    <<PyAdd(CSS, style), name, name, menu, content>>

\* The style parser.py passes.
DriverStyle ==
    PyStr(<<"img#logo", "{", "position:fixed;top:20px;right:20px;width:100px;", "}",
            "pre code", "{", "width: 100%;", "}">>)

\* Inputs of html: strings of both types, with braces and a non-ASCII character.
StrChars == {"a", "{", "}", "xC3"}

UniChars == {"a", "U+00E9"}

SeqsUpTo(S, n) == UNION {[1..k -> S] : k \in 0..n}

ArgValues ==
    {PyStr(s) : s \in SeqsUpTo(StrChars, MaxArgLen)}
      \cup {PyUnicode(s) : s \in SeqsUpTo(UniChars, MaxArgLen)}

StyleValues == {PyStr(<<>>), DriverStyle, PyUnicode(<<"U+00E9">>)}

NoArgs == [name |-> PyStr(<<>>), menu |-> PyStr(<<>>), content |-> PyStr(<<>>),
           style |-> PyStr(<<>>)]

RInit ==
    /\ rpc = "idle"
    /\ rargs = NoArgs
    /\ rtmpl = PyStr(<<>>)
    /\ rresult = PyStr(<<>>)

RIdle ==
    /\ rpc = "off"
    /\ rargs = NoArgs
    /\ rtmpl = PyStr(<<>>)
    /\ rresult = PyStr(<<>>)

\* The call: the arguments are bound (style defaults to "").
Call(name, menu, content, style) ==
    /\ rpc = "idle"
    /\ rargs' = [name |-> name, menu |-> menu, content |-> content, style |-> style]
    /\ rpc' = "called"
    /\ UNCHANGED <<rtmpl, rresult>>

\* HTML.encode('utf-8')
EncodeTemplate ==
    /\ rpc = "called"
    /\ rtmpl' = Encode(HTML)
    /\ rpc' = "encoded"
    /\ UNCHANGED <<rargs, rresult>>

\* .format(CSS+style, name, name, menu, content), and the return.
FormatTemplate ==
    /\ rpc = "encoded"
    /\ rresult' = Format(rtmpl, FormatArgs(rargs.name, rargs.menu, rargs.content,
                                           rargs.style))
    /\ rpc' = "done"
    /\ UNCHANGED <<rargs, rtmpl>>

(***************************************************************************)
(* parser.py: the driver.                                                  *)
(***************************************************************************)
\* "widgets.map" entered a second time in place of "widgets.picture".
modules_dup ==
    <<"data", "rest", "signals", "system.log", "system.version", "user", "widget",
      "widgets.areachart", "widgets.barchart", "widgets.chordchart", "widgets.grid",
      "widgets.hint", "widgets.histogram", "widgets.info", "widgets.label",
      "widgets.legend", "widgets.linechart", "widgets.map", "widgets.map",
      "widgets.piechart", "widgets.slider", "widgets.status", "widgets.trackpad">>

modules ==
    <<"data", "rest", "signals", "system.log", "system.version", "user", "widget",
      "widgets.areachart", "widgets.barchart", "widgets.chordchart", "widgets.grid",
      "widgets.hint", "widgets.histogram", "widgets.info", "widgets.label",
      "widgets.legend", "widgets.linechart", "widgets.map", "widgets.picture",
      "widgets.piechart", "widgets.slider", "widgets.status", "widgets.trackpad">>

\* "src/%s.js" % m
SrcPath(m) == <<"src/", m, ".js">>

\* "docs/api/%s.html" % m
OutPath(m) == <<"docs/api/", m, ".html">>

\* DocBuilder(): an object of its own, nothing parsed yet.
NoBuilder == [id |-> 0, src |-> <<>>, nodes |-> 0]

DInit ==
    /\ dpc = IF Len(modules) = 0 THEN "done" ELSE "print"
    /\ di = 1
    /\ builder = NoBuilder
    /\ nbuilders = 0
    /\ printed = <<>>
    /\ events = <<>>
    /\ written = <<>>

DIdle ==
    /\ dpc = "off"
    /\ di = 1
    /\ builder = NoBuilder
    /\ nbuilders = 0
    /\ printed = <<>>
    /\ events = <<>>
    /\ written = <<>>

\* print("    " + m)
DPrint ==
    /\ dpc = "print"
    /\ printed' = Append(printed, <<"    ", modules[di]>>)
    /\ dpc' = "new"
    /\ UNCHANGED <<di, builder, nbuilders, events, written>>

\* DocBuilder()
DNew ==
    /\ dpc = "new"
    /\ nbuilders' = nbuilders + 1
    /\ builder' = [NoBuilder EXCEPT !.id = nbuilders + 1]
    /\ dpc' = "parse"
    /\ UNCHANGED <<di, printed, events, written>>

\* .parse("src/%s.js" % m): the file holds some number of documented nodes.
DParse(n) ==
    /\ dpc = "parse"
    /\ builder' = [builder EXCEPT !.src = SrcPath(modules[di]), !.nodes = n]
    /\ events' = Append(events, [op |-> "parse", path |-> SrcPath(modules[di]),
                                 builder |-> builder.id, style |-> PyStr(<<>>)])
    /\ dpc' = "html"
    /\ UNCHANGED <<di, nbuilders, printed, written>>

\* .html("docs/api/%s.html" % m, style=...), then the next module.
DHtml ==
    /\ dpc = "html"
    /\ events' = Append(events, [op |-> "html", path |-> OutPath(modules[di]),
                                 builder |-> builder.id, style |-> DriverStyle])
    /\ written' = Append(written, OutPath(modules[di]))
    /\ di' = di + 1
    /\ dpc' = IF di = Len(modules) THEN "done" ELSE "print"
    /\ UNCHANGED <<builder, nbuilders, printed>>

(***************************************************************************)
(* The specifications: one per component, the others at rest.              *)
(***************************************************************************)
InitParser == PInit /\ RIdle /\ DIdle

NextParser ==
    \/ (\E l \in LineIds : ReadLine(l)) /\ UNCHANGED <<rvars, dvars>>
    \/ EndOfInput /\ UNCHANGED <<rvars, dvars>>

SpecParser == InitParser /\ [][NextParser]_vars

InitRender == RInit /\ PIdle /\ DIdle

NextRender ==
    \/ /\ rpc = "idle"
       /\ \E name \in ArgValues, menu \in ArgValues, content \in ArgValues,
             style \in StyleValues : Call(name, menu, content, style)
       /\ UNCHANGED <<pvars, dvars>>
    \/ EncodeTemplate /\ UNCHANGED <<pvars, dvars>>
    \/ FormatTemplate /\ UNCHANGED <<pvars, dvars>>

SpecRender == InitRender /\ [][NextRender]_vars

InitDriver == DInit /\ PIdle /\ RIdle

NextDriver ==
    \/ DPrint /\ UNCHANGED <<pvars, rvars>>
    \/ DNew /\ UNCHANGED <<pvars, rvars>>
    \/ (\E n \in 0..MaxNodes : DParse(n)) /\ UNCHANGED <<pvars, rvars>>
    \/ DHtml /\ UNCHANGED <<pvars, rvars>>

SpecDriver == InitDriver /\ [][NextDriver]_vars

(***************************************************************************)
(* What the input lines are, read off their characters and not off the     *)
(* tag table: used to state the properties of the parser.                  *)
(***************************************************************************)
RECURSIVE Contains(_, _)
Contains(s, sub) ==
    IF Len(s) < Len(sub) THEN FALSE
    ELSE IsPrefix(sub, s) \/ Contains(Tail(s), sub)

\* The node kind a marker word names, "none" for any other word.
KindOfWord(w) ==
    CASE w = <<"@","m","o","d","u","l","e">> -> "module"
      [] w = <<"@","n","a","m","e","s","p","a","c","e">> -> "namespace"
      [] w = <<"@","c","l","a","s","s">> -> "class"
      [] w = <<"@","m","e","t","h","o","d">> -> "method"
      [] w = <<"@","v","a","r">> -> "var"
      [] w = <<"@","p","r","o","p","e","r","t","y">> -> "property"
      [] OTHER -> "none"

\* The flag a marker word names, "none" for any other word.
FlagOfWord(w) ==
    CASE w = <<"@","i","g","n","o","r","e">> -> "ignore"
      [] w = <<"@","p","r","i","v","a","t","e">> -> "private"
      [] w = <<"@","c","o","n","s","t","r","u","c","t","o","r">> -> "constructor"
      [] w = <<"@","d","e","p","r","e","c","a","t","e","d">> -> "deprecated"
      [] OTHER -> "none"

\* The facts of every line of the input alphabet: whether it holds a block
\* delimiter, the first word after its decoration and what follows it, and the
\* node kind or flag that word names.
LineFacts ==
    [id \in LineIds |->
        LET c == LStrip(LineText(id), {" ", "*"})
        IN  [start |-> Contains(LineText(id), <<"/","*","*">>),
             end |-> Contains(LineText(id), <<"*","/">>),
             word |-> FirstWord(c),
             rest |-> Remainder(c),
             kind |-> KindOfWord(FirstWord(c)),
             flag |-> FlagOfWord(FirstWord(c))]]

HasStartMarker(id) == LineFacts[id].start

HasEndMarker(id) == LineFacts[id].end

LineWord(id) == LineFacts[id].word

LineRest(id) == LineFacts[id].rest

LineKind(id) == LineFacts[id].kind

LineFlag(id) == LineFacts[id].flag

Last(s) == s[Len(s)]

LineRead == text' # text

\* The text is one terminated block from line s to line e, holding exactly one
\* node-kind line, with no other block start around it.
OneKindBlock(t, s, e) ==
    /\ 1 <= s /\ s < e /\ e <= Len(t)
    /\ HasStartMarker(t[s])
    /\ HasEndMarker(t[e])
    /\ \A j \in 1..Len(t) : j # s => ~HasStartMarker(t[j])
    /\ \A j \in (s+1)..(e-1) : ~HasEndMarker(t[j])
    /\ Cardinality({j \in (s+1)..(e-1) : LineKind(t[j]) # "none"}) = 1

KindLineIn(t, s, e) == CHOOSE j \in (s+1)..(e-1) : LineKind(t[j]) # "none"

(***************************************************************************)
(* C2: a text with no block-start marker yields no node, and the parser    *)
(* is OUTSIDE_BLOCK after every line of it, whatever tag markers it holds.  *)
(***************************************************************************)
C2_NoStartNoNodes ==
    (\A k \in 1..Len(text) : ~HasStartMarker(text[k]))
        => /\ state = "OUTSIDE_BLOCK"
           /\ out = <<>>
           /\ cur = EmptyNode

C2_Witness ==
    /\ ppc = "done"
    /\ text = <<"method_foo", "end", "property_p", "deprecated">>
    /\ out = <<>>

(***************************************************************************)
(* C3: a terminated block with exactly one node-kind marker yields exactly *)
(* one node, of the marker's kind, named by the rest of the marker's line. *)
(***************************************************************************)
C3_OneKindOneNode ==
    ppc = "done" =>
        \A s, e \in 1..Len(text) :
            OneKindBlock(text, s, e) =>
                /\ Len(out) = 1
                /\ out[1].kind = LineKind(text[KindLineIn(text, s, e)])
                /\ out[1].name = LineRest(text[KindLineIn(text, s, e)])

C3_Witness ==
    /\ ppc = "done"
    /\ text = <<"start", "text", "property_p", "methodOf_Bar", "end">>
    /\ Len(out) = 1
    /\ out[1].kind = "property"
    /\ out[1].name = <<"p">>
    /\ out[1].parent = <<"B","a","r">>

(***************************************************************************)
(* C4: end of input inside a block does not fail: the parser ends          *)
(* OUTSIDE_BLOCK, the nodes of the earlier blocks are kept, and the open    *)
(* block yields what it would have yielded had it been terminated there.    *)
(***************************************************************************)
\* The line that opens the block still open at the end of t, 0 if none is.
OpenStart(t) ==
    LET ends == {j \in 1..Len(t) : HasEndMarker(t[j])}
        e == IF ends = {} THEN 0 ELSE CHOOSE j \in ends : \A k \in ends : k <= j
        starts == {j \in (e+1)..Len(t) : HasStartMarker(t[j])}
    IN  IF starts = {} THEN 0 ELSE CHOOSE j \in starts : \A k \in starts : j <= k

\* C4: end of input inside a block closes it as an END line would.
C4_UnterminatedBlock ==
    ppc = "done" =>
        /\ state = "OUTSIDE_BLOCK"
        /\ OpenStart(text) # 0 =>
             LET s == OpenStart(text)
                 pre == Parse(SubSeq(text, 1, s - 1))
                 kinds == {j \in (s+1)..Len(text) : LineKind(text[j]) # "none"}
             IN  /\ IsPrefix(pre, out)
                 /\ out = Parse(Append(text, "end"))
                 /\ kinds = {} => out = pre
                 /\ kinds # {} => Len(out) = Len(pre) + 1
                 /\ \A k \in kinds :
                      kinds = {k} => /\ Last(out).kind = LineKind(text[k])
                                     /\ Last(out).name = LineRest(text[k])

C4_Witness ==
    /\ ppc = "done"
    /\ text = <<"start", "property_p", "end", "start", "method_foo">>
    /\ Len(out) = 2
    /\ out[2].kind = "method"
    /\ state = "OUTSIDE_BLOCK"

(***************************************************************************)
(* C5: flags are boolean, idempotent and order-independent: exchanging two *)
(* flag lines of a block, or dropping the repetition of a flag line, gives  *)
(* the same nodes; a node's flags are the flags whose markers its block     *)
(* holds.                                                                   *)
(***************************************************************************)
FlagNames == {"ignore", "private", "constructor", "deprecated"}

Swap(t, i, j) == [t EXCEPT ![i] = t[j], ![j] = t[i]]

RemoveAt(t, j) == SubSeq(t, 1, j - 1) \o SubSeq(t, j + 1, Len(t))

\* Lines i and j lie in one block region: no block delimiter from i to j.
SameRegion(t, i, j) ==
    \A k \in i..j : ~HasStartMarker(t[k]) /\ ~HasEndMarker(t[k])

RECURSIVE KindLines(_)
KindLines(t) ==
    IF t = <<>> THEN <<>>
    ELSE (IF LineKind(Head(t)) # "none"
          THEN <<<<LineKind(Head(t)), LineRest(Head(t))>>>>
          ELSE <<>>) \o KindLines(Tail(t))

RECURSIVE IsSubsequence(_, _)
IsSubsequence(a, b) ==
    IF a = <<>> THEN TRUE
    ELSE IF b = <<>> THEN FALSE
    ELSE IF Head(a) = Head(b) THEN IsSubsequence(Tail(a), Tail(b))
    ELSE IsSubsequence(a, Tail(b))

C9_Counts ==
    /\ state \in {"OUTSIDE_BLOCK", "IN_BLOCK"}
    /\ ppc = "done" => state = "OUTSIDE_BLOCK"
    /\ Len(out) <= Cardinality({k \in 1..Len(text) : HasStartMarker(text[k])})
    /\ Len(out) <= Len(KindLines(text))
    /\ IsSubsequence([n \in 1..Len(out) |-> <<out[n].kind, out[n].name>>],
                     KindLines(text))

C9_Moves ==
    /\ (state = "OUTSIDE_BLOCK" /\ state' = "IN_BLOCK")
         => LineRead /\ HasStartMarker(Last(text'))
    /\ (state = "OUTSIDE_BLOCK" /\ LineRead /\ HasStartMarker(Last(text')))
         => state' = "IN_BLOCK"
    /\ (state = "IN_BLOCK" /\ state' = "OUTSIDE_BLOCK")
         => \/ LineRead /\ HasEndMarker(Last(text'))
            \/ ~LineRead /\ ppc' = "done"
    /\ (state = "IN_BLOCK" /\ LineRead /\ HasEndMarker(Last(text')))
         => state' = "OUTSIDE_BLOCK"
    /\ (state = "IN_BLOCK" /\ LineRead /\ HasStartMarker(Last(text')))
         => state' = "IN_BLOCK" /\ out' = out
    /\ out' # out
         => /\ state = "IN_BLOCK" /\ state' = "OUTSIDE_BLOCK"
            /\ cur.kind # "none"
            /\ out' = Append(out, cur)
    /\ (state = "IN_BLOCK" /\ state' = "OUTSIDE_BLOCK" /\ cur.kind = "none")
         => out' = out

\* C9: the block state machine, its counts in every state and its moves in
\* every step.
C9_BlockStateMachine == [](C9_Counts) /\ [][C9_Moves]_vars

C9_Witness ==
    /\ ppc = "done"
    /\ text = <<"start", "method_foo", "end", "start", "property_p">>
    /\ Len(out) = 2
    /\ out[1].kind = "method"
    /\ out[2].kind = "property"

(***************************************************************************)
(* C7, as claimed: every node kind of IDS is an identifier of the 'label'  *)
(* category of TAGS.                                                        *)
(***************************************************************************)
\* Per line: if its first word names a node kind, the word is a label marker.
KindLineHasLabel ==
    [id \in LineIds |->
        LineKind(id) # "none"
          => \E l \in DOMAIN TAGS.label : TAGS.label[l] = LineWord(id)]

\* C7 as claimed: the node kinds are label identifiers.
C7_KindsAreLabels ==
    /\ \A i \in 1..Len(IDS) : IDS[i] \in DOMAIN TAGS.label
    /\ \A k \in 1..Len(text) : KindLineHasLabel[text[k]]

(***************************************************************************)
(* C7, amended: every node kind of IDS is an identifier of some tag        *)
(* category of TAGS and so has a marker string: module, namespace, class    *)
(* and method in 'label', var in 'value', property in 'named_value_desc';   *)
(* a line whose first word names a node kind carries that kind's marker.    *)
(***************************************************************************)
NodeKinds == {IDS[i] : i \in 1..Len(IDS)}

\* Per line: if its first word names a node kind, the kind is in IDS and the
\* word is the kind's marker in some tag category.
KindLineHasMarker ==
    [id \in LineIds |->
        LineKind(id) # "none"
          => /\ LineKind(id) \in NodeKinds
             /\ \E c \in TagCategories :
                   /\ LineKind(id) \in DOMAIN TAGS[c]
                   /\ TAGS[c][LineKind(id)] = LineWord(id)]

\* C7 amended: every node kind has a marker in some tag category.
C7_KindsHaveMarkers ==
    /\ \A k \in NodeKinds : \E c \in TagCategories : k \in DOMAIN TAGS[c]
    /\ {k \in NodeKinds : k \in DOMAIN TAGS.label}
         = {"module", "namespace", "class", "method"}
    /\ {k \in NodeKinds : k \in DOMAIN TAGS.value} = {"var"}
    /\ {k \in NodeKinds : k \in DOMAIN TAGS.named_value_desc} = {"property"}
    /\ \A k \in 1..Len(text) : KindLineHasMarker[text[k]]

C7_Witness ==
    /\ text = <<"start", "method_foo", "end", "start", "property_p">>
    /\ "property" \notin DOMAIN TAGS.label
    /\ cur.kind = "property"

(***************************************************************************)
(* C10, as claimed: no two entries of TAGS have the same marker, no marker *)
(* is a proper prefix of another, and so a line starts with the marker of   *)
(* one entry at most.                                                       *)
(***************************************************************************)
\* The entries whose marker the line starts with (a block delimiter at the
\* start of the line, a tag marker at the start of its content).
PrefixMatches(id) ==
    {e \in Entries :
        IsPrefix(MarkerOf(e),
                 IF e[1] = "block" THEN LStrip(LineText(id), {" "})
                 ELSE LStrip(LineText(id), {" ", "*"}))}

PrefixMatchCount == [id \in LineIds |-> Cardinality(PrefixMatches(id))]

\* The pairs of distinct entries with the same marker, and the pairs in which
\* the first marker is a proper prefix of the second.
SameMarkerPairs ==
    {p \in Entries \X Entries : p[1] # p[2] /\ MarkerOf(p[1]) = MarkerOf(p[2])}

ProperPrefixPairs ==
    {p \in Entries \X Entries : IsProperPrefix(MarkerOf(p[1]), MarkerOf(p[2]))}

\* C10 as claimed: the markers are distinct and prefix-free.
C10_PrefixFree ==
    /\ SameMarkerPairs = {}
    /\ ProperPrefixPairs = {}
    /\ \A k \in 1..Len(text) : PrefixMatchCount[text[k]] <= 1

(***************************************************************************)
(* C10, amended: no two entries of TAGS have the same marker; the one pair *)
(* in which a marker is a proper prefix of another is "@method" and         *)
(* "@methodOf"; a line whose first word is a marker has that word equal to  *)
(* the marker of exactly one entry, whatever the order of the tests, and a  *)
(* memberOf or methodOf line is never taken for a node-kind line.           *)
(***************************************************************************)
\* The entries whose marker is the first word of the line.
WordMatches(id) ==
    {e \in Entries :
        MarkerOf(e) = (IF e[1] = "block" THEN FirstWord(LStrip(LineText(id), {" "}))
                       ELSE LineWord(id))}

\* Per line: one entry at most matches its first word, and a memberOf or
\* methodOf line matches that label and nothing else.
OneWordMatch ==
    [id \in LineIds |->
        /\ Cardinality(WordMatches(id)) <= 1
        /\ LineWord(id) = <<"@","m","e","m","b","e","r","O","f">>
             => WordMatches(id) = {<<"label", "memberOf">>}
        /\ LineWord(id) = <<"@","m","e","t","h","o","d","O","f">>
             => WordMatches(id) = {<<"label", "methodOf">>}]

\* C10 amended: the markers are distinct, "@method" is a proper prefix of
\* "@methodOf" only, and whole-word matching is unambiguous.
C10_DistinctMarkers ==
    /\ SameMarkerPairs = {}
    /\ ProperPrefixPairs = {<<(<<"label", "method">>), (<<"label", "methodOf">>)>>}
    /\ \A k \in 1..Len(text) : OneWordMatch[text[k]]

C10_Witness ==
    /\ state = "IN_BLOCK"
    /\ text = <<"start", "method_foo", "methodOf_Bar">>
    /\ cur.kind = "method"
    /\ cur.name = <<"f","o","o">>
    /\ cur.parent = <<"B","a","r">>

(***************************************************************************)
(* C1: the page html returns is the fixed skeleton with its five slots     *)
(* filled, in this order, by the style, the title, the title again, the     *)
(* menu and the content, each copied character for character; and html      *)
(* returns a page whenever no argument holds a non-ASCII code point.        *)
(***************************************************************************)
\* The skeleton between the slots, as bytes.
Skeleton ==
    <<
      <<"<!DOCTYPE html><html lang='en'><head><meta charset='UTF-8'><meta name='viewport' content='width=device-width, initial-scale=1.0'><link href='https://fonts.googleapis.com/css?family=Montserrat:200,300,700' rel='stylesheet'><link rel='stylesheet' type='text/css' href='https://cdn.rawgit.com/synesenom/whiteprint/master/wp.min.css'><style>">>,
      <<"</style><title>">>,
      <<"</title></head><body><input type='checkbox' id='menu'><label for='menu' id='open'>",
        "xE2", "x98", "xB0",
        "</label><aside><div class='logo'>">>,
      <<"</div><nav><div>">>,
      <<"</div></nav></aside><main>">>,
      <<"<label for='menu' id='exit'></label></main></body></html>">>
    >>

HasCodePoint(v) ==
    v.ty = "unicode" /\ \E k \in 1..Len(v.s) : v.s[k] \in {"U+00E9", "U+2630"}

\* C1: the returned page is the skeleton with style, title, title, menu and
\* content in its slots.
C1_PageIsFilledSkeleton ==
    rpc = "done" =>
        /\ rresult.ty = "str" =>
             rresult.s = Skeleton[1] \o rargs.style.s
                           \o Skeleton[2] \o rargs.name.s
                           \o Skeleton[3] \o rargs.name.s
                           \o Skeleton[4] \o rargs.menu.s
                           \o Skeleton[5] \o rargs.content.s
                           \o Skeleton[6]
        /\ (\A a \in {rargs.name, rargs.menu, rargs.content, rargs.style} :
               ~HasCodePoint(a))
             => rresult.ty = "str"

C1_Witness ==
    /\ rpc = "done"
    /\ rresult.ty = "str"
    /\ rargs.name = PyStr(<<"{">>)
    /\ rargs.menu = PyStr(<<"}">>)
    /\ rargs.content = PyUnicode(<<"a">>)
    /\ rargs.style = DriverStyle

(***************************************************************************)
(* C6: html has no error outcome: every call with four string arguments    *)
(* returns a page.                                                          *)
(***************************************************************************)
C6_NeverAnError ==
    rpc = "done" => rresult.ty = "str"

(***************************************************************************)
(* C8: the driver handles the modules one after another in list order,     *)
(* each with a DocBuilder of its own: for each module one parse of          *)
(* src/<m>.js, then one html write to docs/api/<m>.html, then the next      *)
(* module; no output path is written twice, and at the end there is one     *)
(* output file per module.                                                  *)
(***************************************************************************)
C8_OneFilePerModuleInOrder ==
    /\ Len(events) <= 2 * Len(modules)
    /\ \A j \in 1..Len(events) :
         LET i == (j + 1) \div 2
         IN  /\ events[j].builder = i
             /\ IF j % 2 = 1
                THEN /\ events[j].op = "parse"
                     /\ events[j].path = <<"src/", modules[i], ".js">>
                ELSE /\ events[j].op = "html"
                     /\ events[j].path = <<"docs/api/", modules[i], ".html">>
    /\ Len(written) = Len(events) \div 2
    /\ \A i \in 1..Len(written) : written[i] = <<"docs/api/", modules[i], ".html">>
    /\ \A a, b \in 1..Len(written) : a # b => written[a] # written[b]
    /\ dpc = "parse" => builder.id = di /\ builder.src = <<>>
    /\ dpc = "html" => builder.id = di /\ builder.src = <<"src/", modules[di], ".js">>
    /\ dpc = "done" => Len(written) = 23 /\ Len(events) = 46 /\ nbuilders = 23

C8_Witness ==
    /\ dpc = "done"
    /\ Len(written) = 23
    /\ written[1] = <<"docs/api/", "data", ".html">>
    /\ written[23] = <<"docs/api/", "widgets.trackpad", ".html">>

====
